---- MODULE Spec2Model ----
(***************************************************************************)
(* A model of doctor_app: accounts, patients, visits and diagnoses kept in *)
(* a relational store, the access scoping of User.get_accessible_patients, *)
(* the duplicate reconciliation of check_duplicate_patient and the request *)
(* handlers of patients/routes.py and visits/routes.py that use them.      *)
(*                                                                         *)
(* Text values are sequences of one-character strings, so that trimming,   *)
(* LIKE patterns and case folding are computed and not assumed.  Python's  *)
(* None is None for a text column and NoId for an integer key.             *)
(***************************************************************************)
EXTENDS Integers, Sequences, FiniteSets, TLC

VARIABLES users, patients, visits, diagnoses, ret, requests

vars == <<users, patients, visits, diagnoses, ret, requests>>

\* ------------------------------------------------------------------ bounds

MaxPatients == 2
MaxVisits == 1
MaxRows == 2

\* the visits a store holds after an import
MaxImportedVisits == 2

\* the accounts of the store
MaxUsers == 5

\* the requests that are served at the same time
MaxRequests == 2

\* ------------------------------------------------------------------ values

\* Python None in a text column (a NULL phone)
None == <<"None">>

\* Python None in an integer key column (NULL doctor_id, created_by), and
\* "no row" as the answer of a lookup
NoId == 0

\* Python truthiness of an optional text value: None and "" are falsy
Truthy(s) == s # None /\ s # <<>>

\* str.strip()
RECURSIVE LStrip(_)
LStrip(s) == IF s # <<>> /\ Head(s) = " " THEN LStrip(Tail(s)) ELSE s

RECURSIVE RStrip(_)
RStrip(s) ==
    IF s # <<>> /\ s[Len(s)] = " " THEN RStrip(SubSeq(s, 1, Len(s) - 1)) ELSE s

Strip(s) == RStrip(LStrip(s))

\* case folding of the letters the model uses (ILIKE compares lower-cased)
Lower(c) ==
    CASE c = "A" -> "a"
      [] c = "B" -> "b"
      [] c = "N" -> "n"
      [] OTHER -> c

\* SQL LIKE on lower-cased operands: % matches any run of characters,
\* _ matches exactly one character, anything else matches itself
RECURSIVE LikeMatch(_, _)
LikeMatch(pat, s) ==
    IF pat = <<>> THEN s = <<>>
    ELSE IF Head(pat) = "%"
         THEN LikeMatch(Tail(pat), s) \/ (s # <<>> /\ LikeMatch(pat, Tail(s)))
    ELSE IF Head(pat) = "_"
         THEN s # <<>> /\ LikeMatch(Tail(pat), Tail(s))
    ELSE s # <<>> /\ Lower(Head(s)) = Lower(Head(pat))
                  /\ LikeMatch(Tail(pat), Tail(s))

\* column.ilike(f"%{q}%"): q goes into the pattern as it was typed; a NULL
\* column never matches
ILike(col, q) == col # None /\ LikeMatch(<<"%">> \o q \o <<"%">>, col)

\* ------------------------------------------------------------------ accounts

Roles == {"admin", "doctor", "assistant"}

\* The accounts of the store: run.py creates admin 1 and doctor 2; doctor 3
\* was registered by the admin, assistant 4 was created by doctor 2.
InitUsers ==
    (1 :> [username |-> "admin", role |-> "admin", doctor_id |-> NoId,
           is_active |-> TRUE, location |-> None]) @@
    (2 :> [username |-> "doctor1", role |-> "doctor", doctor_id |-> NoId,
           is_active |-> TRUE, location |-> None]) @@
    (3 :> [username |-> "doctor2", role |-> "doctor", doctor_id |-> NoId,
           is_active |-> TRUE, location |-> None]) @@
    (4 :> [username |-> "assistant1", role |-> "assistant", doctor_id |-> 2,
           is_active |-> TRUE, location |-> None])

UserIds == DOMAIN users

is_admin(u) == users[u].role = "admin"

is_doctor(u) == users[u].role = "doctor"

is_assistant(u) == users[u].role = "assistant"

\* (variant) the capability granted to every role
can_delete_patient_AnyRole(u) == users[u].role \in Roles

can_delete_patient(u) == users[u].role \in {"admin", "doctor"}

can_import_export(u) == users[u].role \in {"admin", "doctor"}

\* current_user.is_authenticated of a session of account u: the user loader
\* finds the account, and UserMixin answers with is_active, which User defines
\* as the column
is_authenticated(u) == u \in UserIds /\ users[u].is_active

\* @login_required
login_required(u) == is_authenticated(u)

\* (variant) the decorator letting every account but assistants through
admin_required_NotAssistant(u) == is_authenticated(u) /\ ~is_assistant(u)

\* @admin_required lets the request through
admin_required(u) == is_authenticated(u) /\ is_admin(u)

\* @doctor_required lets the request through
doctor_required(u) == is_authenticated(u) /\ is_doctor(u)

\* ------------------------------------------------------------------ store

PatientIds == DOMAIN patients

VisitIds == DOMAIN visits

DiagnosisIds == DOMAIN diagnoses

Max(S) == CHOOSE x \in S : \A y \in S : y <= x

Min(S) == CHOOSE x \in S : \A y \in S : x <= y

\* the key of a new row: SQLite's INTEGER PRIMARY KEY without AUTOINCREMENT
\* gives one more than the largest key in the table
NextId(table) == IF DOMAIN table = {} THEN 1 ELSE Max(DOMAIN table) + 1

\* a table with no row
Empty == [k \in {} |-> NoId]

\* f without the keys in S
Without(f, S) == [k \in DOMAIN f \ S |-> f[k]]

\* ------------------------------------------------------------------ access scoping

\* (variant) an assistant scoped to itself instead of its supervising doctor
TargetDoctorId_Self(u) == u

\* the doctor whose patients the account sees
TargetDoctorId(u) == IF is_assistant(u) THEN users[u].doctor_id ELSE u

\* (variant) the visit subquery without its created_by filter
VisitPatientIds_AnyCreator(u) ==
    {p \in PatientIds : \E v \in VisitIds : visits[v].patient_id = p}

\* the patients on which the account has recorded a visit
VisitPatientIds(u) ==
    {p \in PatientIds : \E v \in VisitIds :
        visits[v].patient_id = p /\ visits[v].created_by = u}

\* (variant) the primary-ownership policy: a doctor sees its own and its
\* assistants' patients, everyone else its own
GetAccessiblePatients_Ownership(u) ==
    {p \in PatientIds :
        \/ patients[p].doctor_id = u
        \/ /\ is_doctor(u)
           /\ patients[p].doctor_id \in UserIds
           /\ users[patients[p].doctor_id].role = "assistant"
           /\ users[patients[p].doctor_id].doctor_id = u}

\* (variant) no scoping for an admin
GetAccessiblePatients_AdminAll(u) ==
    IF is_admin(u) THEN PatientIds
    ELSE {p \in PatientIds :
            \/ patients[p].doctor_id = (IF is_assistant(u) THEN users[u].doctor_id ELSE u)
            \/ \E v \in VisitIds :
                  visits[v].patient_id = p /\ visits[v].created_by = u}

\* User.get_accessible_patients
GetAccessiblePatients(u) ==
    {p \in PatientIds :
        \/ patients[p].doctor_id = TargetDoctorId(u)
        \/ p \in VisitPatientIds(u)}

\* ------------------------------------------------------------------ duplicate reconciliation

\* Query.first(): the first row of the result.  The SELECT has no ORDER BY, and
\* the store (config.py: SQLite) walks the index on patient.full_name or on
\* patient.phone, whose entries of equal key are in key order of the table.
First(S) == Min(S)

\* (variant) the name and phone are compared as submitted, without strip()
CheckDuplicateIn_NoTrim(P, full_name, phone, doctor_id, exclude_patient_id) ==
    LET name == IF Truthy(full_name) THEN full_name ELSE <<>>
        ph == IF Truthy(phone) THEN phone ELSE <<>>
        query == {p \in DOMAIN P :
                    /\ P[p].doctor_id = doctor_id
                    /\ (exclude_patient_id # NoId => p # exclude_patient_id)}
        byNamePhone == {p \in query : P[p].full_name = name /\ P[p].phone = ph}
        byName == {p \in query : P[p].full_name = name}
    IN  IF Truthy(ph) /\ byNamePhone # {} THEN First(byNamePhone)
        ELSE IF byName # {}
             THEN IF ~Truthy(P[First(byName)].phone) \/ ~Truthy(ph)
                  THEN First(byName)
                  ELSE NoId
        ELSE NoId

\* (variant) a name match is a duplicate whatever the two phones are
CheckDuplicateIn_NameOnly(P, full_name, phone, doctor_id, exclude_patient_id) ==
    LET name == IF Truthy(full_name) THEN Strip(full_name) ELSE <<>>
        ph == IF Truthy(phone) THEN Strip(phone) ELSE <<>>
        query == {p \in DOMAIN P :
                    /\ P[p].doctor_id = doctor_id
                    /\ (exclude_patient_id # NoId => p # exclude_patient_id)}
        byNamePhone == {p \in query : P[p].full_name = name /\ P[p].phone = ph}
        byName == {p \in query : P[p].full_name = name}
    IN  IF Truthy(ph) /\ byNamePhone # {} THEN First(byNamePhone)
        ELSE IF byName # {} THEN First(byName)
        ELSE NoId

\* (variant) a name match is a duplicate only when both phones are missing
CheckDuplicateIn_BothAbsent(P, full_name, phone, doctor_id, exclude_patient_id) ==
    LET name == IF Truthy(full_name) THEN Strip(full_name) ELSE <<>>
        ph == IF Truthy(phone) THEN Strip(phone) ELSE <<>>
        query == {p \in DOMAIN P :
                    /\ P[p].doctor_id = doctor_id
                    /\ (exclude_patient_id # NoId => p # exclude_patient_id)}
        byNamePhone == {p \in query : P[p].full_name = name /\ P[p].phone = ph}
        byName == {p \in query : P[p].full_name = name}
    IN  IF Truthy(ph) /\ byNamePhone # {} THEN First(byNamePhone)
        ELSE IF byName # {}
             THEN IF ~Truthy(P[First(byName)].phone) /\ ~Truthy(ph)
                  THEN First(byName)
                  ELSE NoId
        ELSE NoId

\* (variant) the record being edited stays in the query
CheckDuplicateIn_NoExclude(P, full_name, phone, doctor_id, exclude_patient_id) ==
    LET name == IF Truthy(full_name) THEN Strip(full_name) ELSE <<>>
        ph == IF Truthy(phone) THEN Strip(phone) ELSE <<>>
        query == {p \in DOMAIN P : P[p].doctor_id = doctor_id}
        byNamePhone == {p \in query : P[p].full_name = name /\ P[p].phone = ph}
        byName == {p \in query : P[p].full_name = name}
    IN  IF Truthy(ph) /\ byNamePhone # {} THEN First(byNamePhone)
        ELSE IF byName # {}
             THEN IF ~Truthy(P[First(byName)].phone) \/ ~Truthy(ph)
                  THEN First(byName)
                  ELSE NoId
        ELSE NoId

\* check_duplicate_patient against the patient table P (the table as the
\* session sees it: a handler's own pending rows are flushed before a query);
\* the answer is the id of the duplicate, NoId for None
\* (variant) a name match is a duplicate only when the stored phone is missing
CheckDuplicateIn_StoredAbsent(P, full_name, phone, doctor_id, exclude_patient_id) ==
    LET name == IF Truthy(full_name) THEN Strip(full_name) ELSE <<>>
        ph == IF Truthy(phone) THEN Strip(phone) ELSE <<>>
        query == {p \in DOMAIN P :
                    /\ P[p].doctor_id = doctor_id
                    /\ (exclude_patient_id # NoId => p # exclude_patient_id)}
        byNamePhone == {p \in query : P[p].full_name = name /\ P[p].phone = ph}
        byName == {p \in query : P[p].full_name = name}
    IN  IF Truthy(ph) /\ byNamePhone # {} THEN First(byNamePhone)
        ELSE IF byName # {}
             THEN IF ~Truthy(P[First(byName)].phone)
                  THEN First(byName)
                  ELSE NoId
        ELSE NoId

\* (variant) only the name-and-phone strategy, no fallback on the name
CheckDuplicateIn_ExactOnly(P, full_name, phone, doctor_id, exclude_patient_id) ==
    LET name == IF Truthy(full_name) THEN Strip(full_name) ELSE <<>>
        ph == IF Truthy(phone) THEN Strip(phone) ELSE <<>>
        query == {p \in DOMAIN P : /\ P[p].doctor_id = doctor_id
                                   /\ (exclude_patient_id # NoId => p # exclude_patient_id)}
        byNamePhone == {p \in query : P[p].full_name = name /\ P[p].phone = ph}
    IN  IF Truthy(ph) /\ byNamePhone # {} THEN First(byNamePhone) ELSE NoId

CheckDuplicateIn(P, full_name, phone, doctor_id, exclude_patient_id) ==
    LET name == IF Truthy(full_name) THEN Strip(full_name) ELSE <<>>
        ph == IF Truthy(phone) THEN Strip(phone) ELSE <<>>
        query == {p \in DOMAIN P :
                    /\ P[p].doctor_id = doctor_id
                    /\ (exclude_patient_id # NoId => p # exclude_patient_id)}
        byNamePhone == {p \in query : P[p].full_name = name /\ P[p].phone = ph}
        byName == {p \in query : P[p].full_name = name}
    IN  IF Truthy(ph) /\ byNamePhone # {} THEN First(byNamePhone)
        ELSE IF byName # {}
             THEN IF ~Truthy(P[First(byName)].phone) \/ ~Truthy(ph)
                  THEN First(byName)
                  ELSE NoId
        ELSE NoId

check_duplicate_patient(full_name, phone, doctor_id, exclude_patient_id) ==
    CheckDuplicateIn(patients, full_name, phone, doctor_id, exclude_patient_id)

\* ------------------------------------------------------------------ forms

\* date.today(), held fixed; dates are day numbers, NoDate is None
Today == 60000

NoDate == 0

max_age == 150

DaysPerYear == 365

\* validate_date_of_birth: TRUE when the validator raises nothing
ValidDateOfBirth(dob) ==
    dob # NoDate => /\ ~(dob > Today)
                    /\ ~(dob < Today - max_age * DaysPerYear)

\* PatientForm.validate_on_submit: DataRequired on full_name (a blank or
\* whitespace-only name is refused), Optional on phone, the date validator
PatientFormValid(full_name, phone, dob) ==
    /\ Truthy(full_name) /\ Strip(full_name) # <<>>
    /\ ValidDateOfBirth(dob)

\* what the handlers store for a submitted phone
StoredPhone(phone) == IF Truthy(phone) THEN Strip(phone) ELSE None

\* ------------------------------------------------------------------ patient handlers

Response(op, u, args, result) ==
    [op |-> op, user |-> u, args |-> args, result |-> result]

\* (variant) a check that writes the candidate's phone into the duplicate it
\* finds
call_check_duplicate_patient_Merging(full_name, phone, doctor_id, exclude_patient_id) ==
    LET duplicate == check_duplicate_patient(
                         full_name, phone, doctor_id, exclude_patient_id)
    IN  /\ ret' = Response("check_duplicate_patient", NoId,
                     <<full_name, phone, doctor_id, exclude_patient_id>>,
                     [status |-> "returned", id |-> duplicate])
        /\ patients' = IF duplicate # NoId
                       THEN [patients EXCEPT ![duplicate].phone = StoredPhone(phone)]
                       ELSE patients
        /\ UNCHANGED <<users, visits, diagnoses, requests>>

\* a call of check_duplicate_patient on the committed store, as the handlers
\* make it before they write
call_check_duplicate_patient(full_name, phone, doctor_id, exclude_patient_id) ==
    /\ ret' = Response("check_duplicate_patient", NoId,
                <<full_name, phone, doctor_id, exclude_patient_id>>,
                [status |-> "returned",
                 id |-> check_duplicate_patient(
                            full_name, phone, doctor_id, exclude_patient_id)])
    /\ UNCHANGED <<users, patients, visits, diagnoses, requests>>

\* the caller makes the call it has just made once more
repeat_check_duplicate_patient ==
    /\ ret.op = "check_duplicate_patient"
    /\ ret.result.status = "returned"
    /\ ret' = [ret EXCEPT !.result =
                 [status |-> "returned again",
                  id |-> check_duplicate_patient(
                             ret.args[1], ret.args[2], ret.args[3], ret.args[4])]]
    /\ UNCHANGED <<users, patients, visits, diagnoses, requests>>

\* GET /patients/?q=...
list_patients(u, q) ==
    /\ u \in UserIds
    /\ ret' = Response("list_patients", u, <<q>>,
                IF Truthy(q)
                THEN {p \in PatientIds :
                        ILike(patients[p].full_name, q) \/ ILike(patients[p].phone, q)}
                ELSE GetAccessiblePatients(u))
    /\ UNCHANGED <<users, patients, visits, diagnoses, requests>>

\* POST /patients/new
new_patient(u, full_name, phone, dob) ==
    /\ u \in UserIds
    /\ LET duplicate == check_duplicate_patient(full_name, phone, u, NoId)
           id == NextId(patients)
       IN  IF ~PatientFormValid(full_name, phone, dob)
           THEN /\ ret' = Response("new_patient", u, <<full_name, phone, dob>>,
                             [status |-> "invalid", id |-> NoId])
                /\ UNCHANGED patients
           ELSE IF duplicate # NoId
           THEN /\ ret' = Response("new_patient", u, <<full_name, phone, dob>>,
                             [status |-> "duplicate", id |-> duplicate])
                /\ UNCHANGED patients
           ELSE /\ id <= MaxPatients
                /\ patients' = patients @@
                     (id :> [full_name |-> Strip(full_name),
                             phone |-> StoredPhone(phone),
                             date_of_birth |-> dob,
                             doctor_id |-> u])
                /\ ret' = Response("new_patient", u, <<full_name, phone, dob>>,
                             [status |-> "created", id |-> id])
    /\ UNCHANGED <<users, visits, diagnoses, requests>>

\* POST /patients/<patient_id>/edit
edit_patient(u, patient_id, full_name, phone, dob) ==
    /\ u \in UserIds
    /\ patient_id \in PatientIds
    /\ LET duplicate == check_duplicate_patient(
                            full_name, phone, patients[patient_id].doctor_id, patient_id)
       IN  IF ~PatientFormValid(full_name, phone, dob)
           THEN /\ ret' = Response("edit_patient", u, <<patient_id, full_name, phone, dob>>,
                             [status |-> "invalid", id |-> NoId])
                /\ UNCHANGED patients
           ELSE IF duplicate # NoId
           THEN /\ ret' = Response("edit_patient", u, <<patient_id, full_name, phone, dob>>,
                             [status |-> "duplicate", id |-> duplicate])
                /\ UNCHANGED patients
           ELSE /\ patients' = [patients EXCEPT ![patient_id] =
                                  [@ EXCEPT !.full_name = Strip(full_name),
                                            !.phone = StoredPhone(phone),
                                            !.date_of_birth = dob]]
                /\ ret' = Response("edit_patient", u, <<patient_id, full_name, phone, dob>>,
                             [status |-> "updated", id |-> patient_id])
    /\ UNCHANGED <<users, visits, diagnoses, requests>>

\* (variant) a delete that does not follow the relationship
VisitsOf_None(V, ps) == {}

\* the visits of a set of patients, the diagnoses of a set of visits
VisitsOf(V, ps) == {v \in DOMAIN V : V[v].patient_id \in ps}

DiagnosesOf(D, vs) == {d \in DOMAIN D : D[d].visit_id \in vs}

\* POST /patients/<patient_id>/delete; the relationships cascade
\* (Patient.visits and Visit.diagnoses: "all, delete-orphan")
delete_patient(u, patient_id) ==
    /\ u \in UserIds
    /\ patient_id \in PatientIds
    /\ IF ~can_delete_patient(u)
       THEN /\ ret' = Response("delete_patient", u, <<patient_id>>,
                         [status |-> "forbidden", id |-> NoId])
            /\ UNCHANGED <<patients, visits, diagnoses>>
       ELSE /\ patients' = Without(patients, {patient_id})
            /\ visits' = Without(visits, VisitsOf(visits, {patient_id}))
            /\ diagnoses' = Without(diagnoses,
                                DiagnosesOf(diagnoses, VisitsOf(visits, {patient_id})))
            /\ ret' = Response("delete_patient", u, <<patient_id>>,
                         [status |-> "deleted", id |-> patient_id])
    /\ UNCHANGED <<users, requests>>

\* ------------------------------------------------------------------ visit handlers

\* a diagnosis field pair of VisitForm is "filled" when it holds more than blanks
Filled(s) == Truthy(s) /\ Strip(s) # <<>>

\* new_visit's own validation of the diagnosis fields: a pair with a code or a
\* description needs a description of at least 3 characters
DiagnosisFieldsValid(fields) ==
    \A i \in 1..Len(fields) :
        (Filled(fields[i].code) \/ Filled(fields[i].desc)) =>
            (Filled(fields[i].desc) /\ Len(Strip(fields[i].desc)) >= 3)

\* the Diagnosis rows a handler adds to visit_id for the pairs that carry a
\* description, keyed from first_id on
RECURSIVE DiagnosisRows(_, _, _)
DiagnosisRows(fields, visit_id, first_id) ==
    IF fields = <<>> THEN Empty
    ELSE IF Filled(Head(fields).desc)
         THEN (first_id :> [visit_id |-> visit_id,
                            code |-> IF Truthy(Head(fields).code)
                                     THEN Strip(Head(fields).code) ELSE None,
                            description |-> Strip(Head(fields).desc)])
              @@ DiagnosisRows(Tail(fields), visit_id, first_id + 1)
         ELSE DiagnosisRows(Tail(fields), visit_id, first_id)

\* POST /visits/new/<patient_id>
new_visit(u, patient_id, fields) ==
    /\ u \in UserIds
    /\ patient_id \in PatientIds
    /\ LET id == NextId(visits)
       IN  IF ~DiagnosisFieldsValid(fields)
           THEN /\ ret' = Response("new_visit", u, <<patient_id, fields>>,
                             [status |-> "invalid", id |-> NoId])
                /\ UNCHANGED <<visits, diagnoses>>
           ELSE /\ id <= MaxVisits
                /\ visits' = visits @@
                     (id :> [patient_id |-> patient_id, created_by |-> u])
                /\ diagnoses' = diagnoses @@
                     DiagnosisRows(fields, id, NextId(diagnoses))
                /\ ret' = Response("new_visit", u, <<patient_id, fields>>,
                             [status |-> "created", id |-> id])
    /\ UNCHANGED <<users, patients, requests>>

\* POST /visits/<visit_id>/delete; Visit.diagnoses cascades
delete_visit(u, visit_id) ==
    /\ u \in UserIds
    /\ visit_id \in VisitIds
    /\ visits' = Without(visits, {visit_id})
    /\ diagnoses' = Without(diagnoses, DiagnosesOf(diagnoses, {visit_id}))
    /\ ret' = Response("delete_visit", u, <<visit_id>>,
                 [status |-> "deleted", id |-> visit_id])
    /\ UNCHANGED <<users, patients, requests>>

\* ------------------------------------------------------------------ bulk import

\* A date cell of the sheet: empty, a datetime, or text, for which day is the
\* date of the first format of the handler's list that parses it (NoDate when
\* none does).
NoCell == [kind |-> "none", day |-> NoDate]

DateCell(d) == [kind |-> "datetime", day |-> d]

TextCell(d) == [kind |-> "str", day |-> d]

\* the handler's parse of the date-of-birth and visit-date cells
ParseDate(cell) ==
    IF cell.kind = "none" THEN NoDate
    ELSE IF cell.kind = "datetime" THEN cell.day
    ELSE IF cell.kind = "str" THEN cell.day
    ELSE NoDate

\* the state of a batch: the tables as the session sees them, the counters,
\* and failed: a flush of the batch raised, which rolls the session's
\* transaction back and leaves it unusable until Session.rollback()
Batch(P, V, D) ==
    [patients |-> P, visits |-> V, diagnoses |-> D,
     imported |-> 0, updated |-> 0, skipped |-> 0, duplicate |-> 0,
     errors |-> <<>>, failed |-> FALSE]

\* (variant) a visit only for a row with a visit date
WantsVisit_DateOnly(row) == row.visit_date.kind # "none"

\* the row has a visit to add
WantsVisit(row) ==
    row.visit_date.kind # "none" \/ Truthy(row.diagnosis_description)

\* (variant) a row handler whose exception leaves the session usable
Raise_SessionUsable(b, row_idx, message) ==
    [b EXCEPT !.skipped = @ + 1,
              !.errors = Append(@, [row |-> row_idx, message |-> message])]

\* the row's except clause, entered from a flush that raised or from a
\* statement on a session whose transaction a flush has rolled back
Raise(b, row_idx, message) ==
    [b EXCEPT !.failed = TRUE,
              !.skipped = @ + 1,
              !.errors = Append(@, [row |-> row_idx, message |-> message])]

\* the visit (and diagnosis) a row adds for patient_id
ImportVisit(b, row, patient_id, u) ==
    IF WantsVisit(row)
    THEN LET visit_id == NextId(b.visits)
             withVisit == [b EXCEPT !.visits = @ @@
                             (visit_id :> [patient_id |-> patient_id,
                                           created_by |-> u])]
         IN  IF Filled(row.diagnosis_description)
             THEN [withVisit EXCEPT !.diagnoses = @ @@
                     (NextId(b.diagnoses) :>
                        [visit_id |-> visit_id,
                         code |-> IF Truthy(row.diagnosis_code)
                                  THEN Strip(row.diagnosis_code) ELSE None,
                         description |-> Strip(row.diagnosis_description)])]
             ELSE withVisit
    ELSE b

\* (variant) the error names the data row instead of the sheet row
MissingFullName_DataRow(b, row_idx) ==
    [b EXCEPT !.skipped = @ + 1,
              !.errors = Append(@, [row |-> row_idx - 1, message |-> "Missing full name"])]

\* a row without a full name: counted, reported, skipped
MissingFullName(b, row_idx) ==
    [b EXCEPT !.skipped = @ + 1,
              !.errors = Append(@, [row |-> row_idx, message |-> "Missing full name"])]

\* one data row of the sheet, row_idx its sheet row number.  row.fault names
\* the flush of this row that the database refuses: "patient" the flush after
\* the new Patient is added, "visit" the flush after the Visit is added,
\* "none" neither.
ImportRow(b, row, row_idx, u) ==
    IF ~Truthy(row.full_name) \/ Strip(row.full_name) = <<>>
    THEN MissingFullName(b, row_idx)
    ELSE IF b.failed
    THEN Raise(b, row_idx, "transaction rolled back")
    ELSE LET full_name == Strip(row.full_name)
             phone == IF Truthy(row.phone) THEN Strip(row.phone) ELSE None
             date_of_birth == ParseDate(row.dob)
             existing == CheckDuplicateIn(b.patients, full_name, phone, u, NoId)
         IN  IF existing # NoId
             THEN LET old == b.patients[existing]
                      dob1 == IF date_of_birth # NoDate /\ old.date_of_birth # date_of_birth
                              THEN date_of_birth ELSE old.date_of_birth
                      phone1 == IF Truthy(phone) /\ old.phone # phone
                                THEN phone ELSE old.phone
                      b1 == [b EXCEPT !.patients[existing].date_of_birth = dob1,
                                      !.patients[existing].phone = phone1]
                      b2 == IF dob1 = date_of_birth /\ phone1 = phone
                            THEN [b1 EXCEPT !.duplicate = @ + 1]
                            ELSE [b1 EXCEPT !.updated = @ + 1]
                  IN  IF WantsVisit(row) /\ row.fault = "visit"
                      THEN Raise(b2, row_idx, "flush failed")
                      ELSE ImportVisit(b2, row, existing, u)
             ELSE LET id == NextId(b.patients)
                      b1 == [b EXCEPT !.patients = @ @@
                               (id :> [full_name |-> full_name,
                                       phone |-> phone,
                                       date_of_birth |-> date_of_birth,
                                       doctor_id |-> u]),
                                      !.imported = @ + 1]
                  IN  IF row.fault = "patient"
                      THEN Raise(b, row_idx, "flush failed")
                      ELSE IF WantsVisit(row) /\ row.fault = "visit"
                      THEN Raise(b1, row_idx, "flush failed")
                      ELSE ImportVisit(b1, row, id, u)

\* the rows of the sheet in order; the header is row 1, the first data row 2
RECURSIVE ImportRows(_, _, _, _)
ImportRows(b, rows, row_idx, u) ==
    IF rows = <<>> THEN b
    ELSE ImportRows(ImportRow(b, Head(rows), row_idx, u), Tail(rows), row_idx + 1, u)

FirstDataRow == 2

\* (variant) a failed commit that leaves what the batch flushed in the store
Commit_NoRollback(b, commit_fails) ==
    [committed |-> ~(b.failed \/ commit_fails),
     patients |-> b.patients, visits |-> b.visits, diagnoses |-> b.diagnoses]

\* db.session.commit() after the last row, and the handler's rollback when it
\* raises: the tables the request leaves in the store
Commit(b, commit_fails) ==
    IF b.failed \/ commit_fails
    THEN [committed |-> FALSE,
          patients |-> patients, visits |-> visits, diagnoses |-> diagnoses]
    ELSE [committed |-> TRUE,
          patients |-> b.patients, visits |-> b.visits, diagnoses |-> b.diagnoses]

\* POST /patients/import: every row, then one commit.  commit_fails: the
\* database refuses the commit.  The commit also raises when a flush of the
\* batch has failed; the handler then rolls the session back.  The response
\* of a committed import also notes whether the request repeats the one
\* answered just before it (same account, same sheet).
import_patients(u, rows, commit_fails) ==
    /\ u \in UserIds
    /\ IF ~can_import_export(u)
       THEN /\ ret' = Response("import_patients", u, <<rows, commit_fails>>,
                         [status |-> "forbidden"])
            /\ UNCHANGED <<patients, visits, diagnoses>>
       ELSE \E b \in {ImportRows(Batch(patients, visits, diagnoses),
                                 rows, FirstDataRow, u)} :
            \E t \in {Commit(b, commit_fails)} :
                /\ \A p \in DOMAIN t.patients : p <= MaxPatients
                /\ \A v \in DOMAIN t.visits : v <= MaxImportedVisits
                /\ patients' = t.patients
                /\ visits' = t.visits
                /\ diagnoses' = t.diagnoses
                /\ ret' = Response("import_patients", u, <<rows, commit_fails>>,
                             IF ~t.committed
                             THEN [status |-> "error"]
                             ELSE [status |-> "imported",
                                   repeated |-> ret = Response(
                                       "import_patients", u, <<rows, commit_fails>>,
                                       ret.result),
                                   created |-> b.imported, updated |-> b.updated,
                                   duplicate |-> b.duplicate, skipped |-> b.skipped,
                                   errors |-> b.errors])
    /\ UNCHANGED <<users, requests>>

\* GET /patients/export: the sheet holds the requester's own patients
export_patients(u) ==
    /\ u \in UserIds
    /\ ret' = Response("export_patients", u, <<>>,
                IF ~can_import_export(u)
                THEN [status |-> "forbidden", rows |-> {}]
                ELSE [status |-> "exported",
                      rows |-> {p \in PatientIds : patients[p].doctor_id = u}])
    /\ UNCHANGED <<users, patients, visits, diagnoses, requests>>

\* ------------------------------------------------------------------ account handlers

\* User.query.filter_by(username=...).first()
UserByName(U, username) ==
    IF \E i \in DOMAIN U : U[i].username = username
    THEN Min({i \in DOMAIN U : U[i].username = username})
    ELSE NoId

\* the role choices of RegisterForm and of EditUserForm
RegisterRoles == {"doctor", "admin"}

EditUserRoles == {"admin", "doctor", "assistant"}

\* a request the decorators or a handler's own checks turn away, and one the
\* handler fails: neither writes
Refuse(op, u, args, status) ==
    /\ ret' = Response(op, u, args, [status |-> status, id |-> NoId])
    /\ UNCHANGED <<users, patients, visits, diagnoses, requests>>

\* POST /register
register(u, username, role) ==
    /\ login_required(u)
    /\ role \in RegisterRoles
    /\ IF ~admin_required(u)
       THEN Refuse("register", u, <<username, role>>, "forbidden")
       ELSE IF UserByName(users, username) # NoId
       THEN Refuse("register", u, <<username, role>>, "invalid")
       ELSE /\ NextId(users) <= MaxUsers
            /\ users' = users @@
                 (NextId(users) :>
                    [username |-> username, role |-> role, doctor_id |-> NoId,
                     is_active |-> TRUE, location |-> None])
            /\ ret' = Response("register", u, <<username, role>>,
                         [status |-> "created", id |-> NextId(users)])
            /\ UNCHANGED <<patients, visits, diagnoses, requests>>

\* POST /assistants/create
create_assistant(u, username) ==
    /\ login_required(u)
    /\ IF ~doctor_required(u)
       THEN Refuse("create_assistant", u, <<username>>, "forbidden")
       ELSE IF UserByName(users, username) # NoId
       THEN Refuse("create_assistant", u, <<username>>, "invalid")
       ELSE /\ NextId(users) <= MaxUsers
            /\ users' = users @@
                 (NextId(users) :>
                    [username |-> username, role |-> "assistant", doctor_id |-> u,
                     is_active |-> TRUE, location |-> users[u].location])
            /\ ret' = Response("create_assistant", u, <<username>>,
                         [status |-> "created", id |-> NextId(users)])
            /\ UNCHANGED <<patients, visits, diagnoses, requests>>

\* POST /assistants/<assistant_id>/edit
edit_assistant(u, assistant_id, username, active) ==
    /\ login_required(u)
    /\ LET args == <<assistant_id, username, active>> IN
       IF ~doctor_required(u)
       THEN Refuse("edit_assistant", u, args, "forbidden")
       ELSE IF assistant_id \notin UserIds
       THEN Refuse("edit_assistant", u, args, "not found")
       ELSE IF users[assistant_id].doctor_id # u
       THEN Refuse("edit_assistant", u, args, "refused")
       ELSE IF UserByName(users, username) \notin {NoId, assistant_id}
       THEN Refuse("edit_assistant", u, args, "invalid")
       ELSE /\ users' = [users EXCEPT ![assistant_id].username = username,
                                      ![assistant_id].is_active = active]
            /\ ret' = Response("edit_assistant", u, args,
                         [status |-> "updated", id |-> assistant_id])
            /\ UNCHANGED <<patients, visits, diagnoses, requests>>

\* POST /assistants/<assistant_id>/delete: User.patients is a list
\* relationship, and assistant.patients.count() without an argument raises
\* TypeError before anything is deleted
delete_assistant(u, assistant_id) ==
    /\ login_required(u)
    /\ LET args == <<assistant_id>> IN
       IF ~doctor_required(u)
       THEN Refuse("delete_assistant", u, args, "forbidden")
       ELSE IF assistant_id \notin UserIds
       THEN Refuse("delete_assistant", u, args, "not found")
       ELSE IF users[assistant_id].doctor_id # u
       THEN Refuse("delete_assistant", u, args, "refused")
       ELSE Refuse("delete_assistant", u, args, "error")

\* POST /users/<user_id>/edit
edit_user(u, user_id, username, role, active, location) ==
    /\ login_required(u)
    /\ role \in EditUserRoles
    /\ LET args == <<user_id, username, role, active, location>> IN
       IF ~admin_required(u)
       THEN Refuse("edit_user", u, args, "forbidden")
       ELSE IF user_id \notin UserIds
       THEN Refuse("edit_user", u, args, "not found")
       ELSE IF UserByName(users, username) \notin {NoId, user_id}
       THEN Refuse("edit_user", u, args, "invalid")
       ELSE /\ users' = [users EXCEPT ![user_id].username = username,
                                      ![user_id].location = location,
                                      ![user_id].role = role,
                                      ![user_id].is_active = active]
            /\ ret' = Response("edit_user", u, args,
                         [status |-> "updated", id |-> user_id])
            /\ UNCHANGED <<patients, visits, diagnoses, requests>>

\* POST /users/<user_id>/update-location
update_location(u, user_id, location) ==
    /\ login_required(u)
    /\ LET args == <<user_id, location>> IN
       IF ~admin_required(u)
       THEN Refuse("update_location", u, args, "forbidden")
       ELSE IF user_id \notin UserIds
       THEN Refuse("update_location", u, args, "not found")
       ELSE /\ users' = [users EXCEPT ![user_id].location =
                            IF Strip(location) # <<>> THEN Strip(location) ELSE None]
            /\ ret' = Response("update_location", u, args,
                         [status |-> "updated", id |-> user_id])
            /\ UNCHANGED <<patients, visits, diagnoses, requests>>

\* db.session.delete(user): the rows that refer to the account through
\* User.assistants, User.patients and User.visits have the reference set to NULL
Nullify(table, field, user_id) ==
    [k \in DOMAIN table |->
        IF table[k][field] = user_id
        THEN [table[k] EXCEPT ![field] = NoId]
        ELSE table[k]]

\* User.query.filter_by(role="admin").count()
AdminCount(U) == Cardinality({i \in DOMAIN U : U[i].role = "admin"})

\* user.assistants.count()
AssistantCount(U, user_id) ==
    Cardinality({i \in DOMAIN U : U[i].doctor_id = user_id})

\* POST /users/<user_id>/delete
delete_user(u, user_id) ==
    /\ login_required(u)
    /\ LET args == <<user_id>> IN
       IF ~admin_required(u)
       THEN Refuse("delete_user", u, args, "forbidden")
       ELSE IF user_id \notin UserIds
       THEN Refuse("delete_user", u, args, "not found")
       ELSE IF user_id = u
       THEN Refuse("delete_user", u, args, "refused")
       ELSE IF is_admin(user_id) /\ AdminCount(users) <= 1
       THEN Refuse("delete_user", u, args, "refused")
       ELSE IF is_doctor(user_id) /\ AssistantCount(users, user_id) > 0
       THEN Refuse("delete_user", u, args, "refused")
       ELSE /\ users' = Nullify(Without(users, {user_id}), "doctor_id", user_id)
            /\ patients' = Nullify(patients, "doctor_id", user_id)
            /\ visits' = Nullify(visits, "created_by", user_id)
            /\ ret' = Response("delete_user", u, args,
                         [status |-> "deleted", id |-> user_id])
            /\ UNCHANGED <<diagnoses, requests>>

\* ------------------------------------------------------------------ concurrent requests

\* Requests served by different workers share nothing but the store.  A
\* request in flight has run its handler up to the duplicate check, on the
\* store as committed then; its writes reach the store with its commit.
\* requests[r] is what worker r holds between the two.
Idle == [op |-> "idle"]

\* the rows of table B that table P does not hold, in key order
RECURSIVE NewRows(_, _)
NewRows(B, P) ==
    IF DOMAIN B \ DOMAIN P = {} THEN <<>>
    ELSE LET k == Min(DOMAIN B \ DOMAIN P)
         IN  <<B[k]>> \o NewRows(Without(B, {k}), P)

\* INSERT of a sequence of rows: each gets the key the table gives it then
RECURSIVE Insert(_, _)
Insert(table, rows) ==
    IF rows = <<>> THEN table
    ELSE Insert(table @@ (NextId(table) :> Head(rows)), Tail(rows))

\* UPDATE of the rows of P that the session changed to what B holds
Update(P, B, before) ==
    [k \in DOMAIN P |->
        IF k \in DOMAIN before /\ k \in DOMAIN B /\ B[k] # before[k]
        THEN B[k] ELSE P[k]]

\* what the request knows of a duplicate when it commits: what its check found
DuplicateAtCommit(req) == req.duplicate

\* new_patient up to the duplicate check
new_patient_check(r, u, full_name, phone) ==
    /\ requests[r] = Idle
    /\ u \in UserIds
    /\ PatientFormValid(full_name, phone, NoDate)
    /\ requests' = [requests EXCEPT ![r] =
          [op |-> "new_patient", user |-> u, full_name |-> full_name,
           phone |-> phone,
           duplicate |-> check_duplicate_patient(full_name, phone, u, NoId)]]
    /\ UNCHANGED <<users, patients, visits, diagnoses, ret>>

\* new_patient from the duplicate check on: the refusal, or the INSERT and
\* the commit
new_patient_commit(r) ==
    /\ requests[r].op = "new_patient"
    /\ LET req == requests[r]
           args == <<req.full_name, req.phone, NoDate>>
       IN  IF DuplicateAtCommit(req) # NoId
           THEN /\ ret' = Response("new_patient", req.user, args,
                             [status |-> "duplicate", id |-> DuplicateAtCommit(req)])
                /\ UNCHANGED patients
           ELSE /\ NextId(patients) <= MaxPatients
                /\ patients' = Insert(patients,
                                  <<[full_name |-> Strip(req.full_name),
                                     phone |-> StoredPhone(req.phone),
                                     date_of_birth |-> NoDate,
                                     doctor_id |-> req.user]>>)
                /\ ret' = Response("new_patient", req.user, args,
                             [status |-> "created", id |-> NextId(patients)])
    /\ requests' = [requests EXCEPT ![r] = Idle]
    /\ UNCHANGED <<users, visits, diagnoses>>

\* import_patients up to the end of its row loop, on a sheet whose rows hold
\* patient data only: the batch of the session, not yet committed
import_patients_check(r, u, rows) ==
    /\ requests[r] = Idle
    /\ u \in UserIds
    /\ can_import_export(u)
    /\ \A k \in DOMAIN rows : ~WantsVisit(rows[k]) /\ rows[k].fault = "none"
    /\ requests' = [requests EXCEPT ![r] =
          [op |-> "import_patients", user |-> u, rows |-> rows,
           before |-> patients,
           batch |-> ImportRows(Batch(patients, visits, diagnoses),
                                rows, FirstDataRow, u)]]
    /\ UNCHANGED <<users, patients, visits, diagnoses, ret>>

\* import_patients' commit: the rows the batch added and changed reach the
\* store as it is then
import_patients_commit(r) ==
    /\ requests[r].op = "import_patients"
    /\ LET req == requests[r]
           b == req.batch
           created == NewRows(b.patients, req.before)
       IN  /\ Len(created) + Cardinality(PatientIds) <= MaxPatients
           /\ patients' = Insert(Update(patients, b.patients, req.before), created)
           /\ ret' = Response("import_patients", req.user, <<req.rows, FALSE>>,
                        [status |-> "imported", repeated |-> FALSE,
                         created |-> b.imported, updated |-> b.updated,
                         duplicate |-> b.duplicate, skipped |-> b.skipped,
                         errors |-> b.errors])
    /\ requests' = [requests EXCEPT ![r] = Idle]
    /\ UNCHANGED <<users, visits, diagnoses>>

\* ------------------------------------------------------------------ specifications

Init ==
    /\ users = InitUsers
    /\ patients = Empty
    /\ visits = Empty
    /\ diagnoses = Empty
    /\ ret = Response("start", NoId, <<>>, [status |-> "none", id |-> NoId])
    /\ requests = [r \in 1..MaxRequests |-> Idle]

\* what the requests of the specifications submit
NameAn == <<"A", "n">>

NameBo == <<"b", "o">>

NoFields == <<>>

\* Access scoping: every account creates patients and records visits
NextAccess ==
    \/ \E u \in UserIds : new_patient(u, NameAn, <<>>, NoDate)
    \/ \E u \in UserIds, p \in PatientIds : new_visit(u, p, NoFields)
    \/ \E u \in UserIds, v \in VisitIds : delete_visit(u, v)
    \/ \E u \in UserIds, p \in PatientIds : delete_patient(u, p)

SpecAccess == Init /\ [][NextAccess]_vars

\* Search: two accounts create patients with names and phones, every account
\* lists with and without a query
SearchQueries == {<<>>, <<"a">>, <<"N", "b">>, <<"1">>, <<"_">>, <<"%">>}

NextSearch ==
    \/ \E u \in {2, 4}, n \in {NameAn, NameBo}, ph \in {<<>>, <<"1">>} :
          new_patient(u, n, ph, NoDate)
    \/ \E u \in UserIds, p \in PatientIds : new_visit(u, p, NoFields)
    \/ \E u \in UserIds, q \in SearchQueries : list_patients(u, q)

SpecSearch == Init /\ [][NextSearch]_vars

\* Duplicate reconciliation: two owners create, edit and import patients whose
\* names and phones collide, and the check is called on every store reached
NameAnPadded == <<" ", "A", "n", " ">>

DupUsers == {2, 3}

DupNames == {NameAnPadded, NameBo}

DupPhones == {<<>>, <<" ", "1">>, <<"2">>}

\* the phones the check is called with: blank, padded, plain
CallPhones == {<<" ">>, <<" ", "1">>, <<"2">>}

SheetRow(full_name, phone) ==
    [full_name |-> full_name, phone |-> phone, dob |-> NoCell, visit_date |-> NoCell,
     diagnosis_code |-> None, diagnosis_description |-> None, fault |-> "none"]

DupRows == {SheetRow(NameAn, None), SheetRow(NameAnPadded, <<"2">>)}

\* the sheets of 1..MaxRows data rows over a set of rows
Sheets(R) == UNION {[1..n -> R] : n \in 1..MaxRows}

\* a row with a phone, a date-of-birth cell, a visit-date cell, a diagnosis
\* description and the flush the database refuses
FullRow(full_name, phone, dob, visit_date, diagnosis_description, fault) ==
    [full_name |-> full_name, phone |-> phone, dob |-> dob, visit_date |-> visit_date,
     diagnosis_code |-> None, diagnosis_description |-> diagnosis_description,
     fault |-> fault]

NextDup ==
    \/ \E u \in DupUsers, n \in DupNames, ph \in DupPhones :
          new_patient(u, n, ph, NoDate)
    \/ \E p \in PatientIds, n \in DupNames, ph \in DupPhones :
          edit_patient(3, p, n, ph, NoDate)
    \/ \E rows \in Sheets(DupRows) : import_patients(2, rows, FALSE)
    \/ \E n \in DupNames, ph \in CallPhones, d \in DupUsers :
          /\ ret.op # "check_duplicate_patient"
          /\ call_check_duplicate_patient(n, ph, d, NoId)
    \/ \E n \in DupNames, ph \in CallPhones, x \in PatientIds :
          /\ ret.op # "check_duplicate_patient"
          /\ call_check_duplicate_patient(n, ph, patients[x].doctor_id, x)

SpecDup == Init /\ [][NextDup]_vars

\* Deduplication: an owner creates, edits, deletes and imports patients, next
\* to a patient of another owner, whose
\* names and phones collide; a phone of blanks is stored as the empty text
DedupPhones == DupPhones \cup {<<" ">>}

NextDedup ==
    \/ \E n \in DupNames, ph \in DedupPhones : new_patient(2, n, ph, NoDate)
    \/ new_patient(3, NameAnPadded, <<"2">>, NoDate)
    \/ \E p \in PatientIds, n \in DupNames, ph \in DedupPhones :
          edit_patient(3, p, n, ph, NoDate)
    \/ \E p \in PatientIds : delete_patient(2, p)
    \/ \E rows \in Sheets(DupRows) : import_patients(2, rows, FALSE)

SpecDedup == Init /\ [][NextDedup]_vars

\* Concurrent requests: doctor 2 submits patient forms and sheets from several
\* workers, with names and phones that collide
ConcPhones == {<<>>, <<"2">>}

ConcRows == {SheetRow(NameAn, <<"2">>)}

NextConcurrent ==
    \/ \E r \in 1..MaxRequests, ph \in ConcPhones :
          new_patient_check(r, 2, NameAnPadded, ph)
    \/ \E r \in 1..MaxRequests : new_patient_commit(r)
    \/ \E r \in 1..MaxRequests, rows \in Sheets(ConcRows) :
          import_patients_check(r, 2, rows)
    \/ \E r \in 1..MaxRequests : import_patients_commit(r)

SpecConcurrent == Init /\ [][NextConcurrent]_vars

\* Repeated checks: the check is called, and called again with the same
\* arguments, on stores where several patients share a name
NextRepeat ==
    \/ \E u \in DupUsers, n \in DupNames, ph \in DupPhones :
          new_patient(u, n, ph, NoDate)
    \/ \E n \in DupNames, ph \in CallPhones, d \in DupUsers :
          call_check_duplicate_patient(n, ph, d, NoId)
    \/ repeat_check_duplicate_patient

SpecRepeat == Init /\ [][NextRepeat]_vars

\* Import rows: sheets with blank names, visit dates and diagnosis
\* descriptions, imported by two doctors into stores that hold patients
DescFlu == <<" ", "f", "l", "u">>

DayOfVisit == 59000

RowBlankName == FullRow(<<" ">>, None, NoCell, DateCell(DayOfVisit), DescFlu, "none")

RowAnVisit == FullRow(NameAnPadded, None, NoCell, TextCell(NoDate), None, "none")

RowBoDiagnosis == FullRow(NameBo, None, NoCell, NoCell, DescFlu, "none")

RowAnBlankDescription == FullRow(NameAn, None, NoCell, NoCell, <<" ">>, "none")

VisitRows == {RowBlankName, RowAnVisit, RowBoDiagnosis, RowAnBlankDescription}

NextRows ==
    \/ new_patient(2, NameAn, <<>>, NoDate)
    \/ \E u \in DupUsers, rows \in Sheets(VisitRows) : import_patients(u, rows, FALSE)

SpecRows == Init /\ [][NextRows]_vars

\* Import counters: a doctor creates patients and imports sheets whose rows
\* repeat names and differ in phone and date of birth
DayOfBirth1 == 50000

DayOfBirth2 == 50001

CountRows ==
    {FullRow(NameAn, None, NoCell, NoCell, None, "none"),
     FullRow(NameAn, <<"1">>, DateCell(DayOfBirth1), NoCell, None, "none"),
     FullRow(NameAn, <<"2">>, TextCell(DayOfBirth2), NoCell, None, "none"),
     FullRow(NameAn, None, DateCell(DayOfBirth2), NoCell, None, "none"),
     FullRow(NameBo, <<"1">>, NoCell, NoCell, None, "none")}

NextCount ==
    \/ \E ph \in {<<>>, <<"1">>}, dob \in {NoDate, DayOfBirth1} :
          new_patient(2, NameAn, ph, dob)
    \/ \E rows \in Sheets(CountRows) : import_patients(2, rows, FALSE)

SpecCount == Init /\ [][NextCount]_vars

\* Import failures: a doctor imports sheets in which the database refuses a
\* flush of a row, or the commit
RowBoVisit ==
    FullRow(NameBo, <<"1">>, DateCell(DayOfBirth1), DateCell(DayOfVisit), DescFlu, "none")

RowBoVisitRefused ==
    FullRow(NameBo, <<"1">>, DateCell(DayOfBirth1), DateCell(DayOfVisit), DescFlu, "visit")

RowAnRefused == FullRow(NameAn, None, NoCell, NoCell, None, "patient")

FaultRows == {SheetRow(NameAn, None), RowBoVisit, RowBoVisitRefused, RowAnRefused}

NextFault ==
    \/ new_patient(2, NameBo, <<>>, NoDate)
    \/ \E rows \in Sheets(FaultRows), commit_fails \in BOOLEAN :
          import_patients(2, rows, commit_fails)

SpecFault == Init /\ [][NextFault]_vars

\* Deletion and capabilities: a doctor and its assistant create patients and
\* visits with diagnoses, import, export and delete
FieldsFlu == <<[code |-> None, desc |-> DescFlu]>>

DeleteUsers == {2, 4}

DeleteRows == {RowBoDiagnosis, RowAnVisit}

NextDelete ==
    \/ \E u \in DeleteUsers : new_patient(u, NameAn, <<>>, NoDate)
    \/ \E u \in DeleteUsers, p \in PatientIds : new_visit(u, p, FieldsFlu)
    \/ \E u \in DeleteUsers, rows \in Sheets(DeleteRows) : import_patients(u, rows, FALSE)
    \/ \E u \in DeleteUsers : export_patients(u)
    \/ \E u \in DeleteUsers, p \in PatientIds : delete_patient(u, p)
    \/ \E u \in DeleteUsers, v \in VisitIds : delete_visit(u, v)

SpecDelete == Init /\ [][NextDelete]_vars

\* Dates of birth: a doctor creates, edits and imports patients with dates of
\* birth in and out of the validator's range
DobInputs ==
    {NoDate, DayOfBirth1, Today, Today + 1,
     Today - max_age * DaysPerYear, Today - max_age * DaysPerYear - 1}

DobRows ==
    {FullRow(NameAn, None, DateCell(dob), NoCell, None, "none") :
        dob \in DobInputs \ {NoDate}}
    \cup {FullRow(NameBo, None, TextCell(dob), NoCell, None, "none") :
        dob \in {NoDate, Today + 1}}

NextDob ==
    \/ \E dob \in DobInputs : new_patient(2, NameAn, <<>>, dob)
    \/ \E p \in PatientIds, dob \in DobInputs : edit_patient(2, p, NameAn, <<>>, dob)
    \/ \E rows \in Sheets(DobRows) : import_patients(2, rows, FALSE)

SpecDob == Init /\ [][NextDob]_vars

\* the account requests: they come from the sessions of accounts 1 and 2, the
\* usernames submitted are a new one and a taken one, the edit forms come back
\* with the username and location they were filled with, the admin's edits are
\* made on accounts 1 and 4, and account 2 adds the patients
Actors == {1, 2}

NewNames == {"nurse1"}

TakenNames == {"admin"}

RegisterForms ==
    {<<username, role>> : username \in NewNames, role \in RegisterRoles}
    \cup {<<username, "doctor">> : username \in TakenNames}

AssistantTargets == {4, 5}

EditTargets == {1, 4}

LocationInputs == {<<>>, <<" ", "x">>}

LocationTargets == {3}

NextAccounts ==
    \/ \E u \in Actors, form \in RegisterForms : register(u, form[1], form[2])
    \/ \E u \in Actors, username \in NewNames : create_assistant(u, username)
    \/ \E u \in Actors, a \in AssistantTargets \cap UserIds, active \in BOOLEAN :
          edit_assistant(u, a, users[a].username, active)
    \/ \E u \in Actors, a \in AssistantTargets : delete_assistant(u, a)
    \/ \E u \in Actors, t \in EditTargets \cap UserIds, role \in EditUserRoles :
          edit_user(u, t, users[t].username, role, users[t].is_active,
                    users[t].location)
    \/ \E u \in Actors, t \in LocationTargets, location \in LocationInputs :
          update_location(u, t, location)
    \/ \E u \in Actors, t \in UserIds : delete_user(u, t)
    \/ new_patient(2, NameAn, <<>>, NoDate)
    \/ \E u \in Actors, p \in PatientIds : delete_patient(u, p)

SpecAccounts == Init /\ [][NextAccounts]_vars

\* ------------------------------------------------------------------ properties: access scoping

Owner(p) == patients[p].doctor_id

\* the owner of p is an assistant whose supervising doctor is A
OwnedByAssistantOf(p, A) ==
    /\ Owner(p) \in UserIds
    /\ users[Owner(p)].role = "assistant"
    /\ users[Owner(p)].doctor_id = A

\* A recorded at least one visit on p
HasVisitBy(p, A) ==
    \E v \in VisitIds : visits[v].patient_id = p /\ visits[v].created_by = A

\* C1 as stated: a doctor's accessible patients are exactly its own patients
\* and the patients owned by its assistants.
C1_DoctorOwnAndAssistants ==
    \A A \in UserIds : is_doctor(A) =>
        GetAccessiblePatients(A) =
            {p \in PatientIds : Owner(p) = A \/ OwnedByAssistantOf(p, A)}

\* C1 amended: a doctor's accessible patients are exactly the patients it owns
\* and the patients on which it recorded a visit; a patient owned by one of its
\* assistants is accessible only through such a visit.
C1_DoctorOwnedOrVisited ==
    \A A \in UserIds : is_doctor(A) =>
        /\ GetAccessiblePatients(A) =
              {p \in PatientIds : Owner(p) = A \/ HasVisitBy(p, A)}
        /\ \A p \in PatientIds :
              (OwnedByAssistantOf(p, A) /\ ~HasVisitBy(p, A)) =>
                  p \notin GetAccessiblePatients(A)

\* C1 witness: a doctor has an assistant who owns a patient the doctor cannot
\* access, and accesses a patient of another owner through a visit.
C1_Witness ==
    \E A \in UserIds : is_doctor(A) /\
        \E p, q \in PatientIds :
            /\ OwnedByAssistantOf(p, A) /\ p \notin GetAccessiblePatients(A)
            /\ Owner(q) # A /\ HasVisitBy(q, A) /\ q \in GetAccessiblePatients(A)

\* C2 as stated: an admin's accessible patients are all the patients of the
\* store.
C2_AdminAll ==
    \A A \in UserIds : is_admin(A) => GetAccessiblePatients(A) = PatientIds

\* C2 amended: an admin's accessible patients are exactly the patients whose
\* owning-doctor reference is the admin itself and the patients on which the
\* admin recorded a visit.
C2_AdminOwnedOrVisited ==
    \A A \in UserIds : is_admin(A) =>
        \A p \in PatientIds :
            p \in GetAccessiblePatients(A) <=> (Owner(p) = A \/ HasVisitBy(p, A))

\* C2 witness: the store holds a patient the admin cannot access and one it can.
C2_Witness ==
    \E A \in UserIds : is_admin(A) /\
        \E p, q \in PatientIds :
            /\ p \notin GetAccessiblePatients(A)
            /\ q \in GetAccessiblePatients(A)

\* C3 as stated: an assistant's accessible patients are exactly the patients
\* whose owning-doctor reference is the assistant itself.
C3_AssistantOwnOnly ==
    \A A \in UserIds : is_assistant(A) =>
        GetAccessiblePatients(A) = {p \in PatientIds : Owner(p) = A}

\* C3 amended: an assistant's accessible patients are exactly the patients
\* owned by its supervising doctor and the patients on which the assistant
\* recorded a visit; a patient the assistant owns is accessible only through
\* such a visit.
C3_AssistantSupervisorOrVisited ==
    \A A \in UserIds : is_assistant(A) =>
        /\ GetAccessiblePatients(A) =
              {p \in PatientIds : Owner(p) = users[A].doctor_id \/ HasVisitBy(p, A)}
        /\ \A p \in PatientIds :
              (Owner(p) = A /\ ~HasVisitBy(p, A)) => p \notin GetAccessiblePatients(A)

\* C3 witness: an assistant owns a patient it cannot access while it accesses a
\* patient of its supervising doctor.
C3_Witness ==
    \E A \in UserIds : is_assistant(A) /\
        \E p, q \in PatientIds :
            /\ Owner(p) = A /\ p \notin GetAccessiblePatients(A)
            /\ Owner(q) = users[A].doctor_id /\ q \in GetAccessiblePatients(A)

\* the effective doctor of an account: its supervisor for an assistant, itself
\* otherwise
EffectiveDoctor(A) ==
    IF users[A].role = "assistant" THEN users[A].doctor_id ELSE A

\* C4: for every account of any role, the accessible patients are exactly the
\* union of the patients owned by the account's effective doctor and the
\* patients with at least one visit created by the account.
C4_EffectiveDoctorUnionVisited ==
    \A A \in UserIds :
        GetAccessiblePatients(A) =
            {p \in PatientIds : Owner(p) = EffectiveDoctor(A)}
            \cup {p \in PatientIds : HasVisitBy(p, A)}

\* C4 witness: an account accesses a patient only through ownership, another
\* only through a visit it recorded, and a third patient-account pair is out of
\* both sets.
C4_Witness ==
    \E A, B \in UserIds : \E p, q \in PatientIds :
        /\ Owner(p) = EffectiveDoctor(A) /\ ~HasVisitBy(p, A)
        /\ Owner(q) # EffectiveDoctor(A) /\ HasVisitBy(q, A)
        /\ Owner(q) # EffectiveDoctor(B) /\ ~HasVisitBy(q, B)
        /\ q \notin GetAccessiblePatients(B)

\* ------------------------------------------------------------------ properties: search

\* q occurs in s as a substring, letter case ignored
Contains(s, q) ==
    /\ s # None
    /\ \E i \in 1..(Len(s) - Len(q) + 1) :
          \A j \in 1..Len(q) : Lower(s[i + j - 1]) = Lower(q[j])

\* C5: a list request with a non-empty query answers every patient of the
\* store whose name or phone contains the query as a case-insensitive
\* substring, whoever asks; with an empty query it answers the requester's
\* accessible patients.
C5_SearchIsSubstringMatch ==
    ret.op = "list_patients" =>
        IF ret.args[1] # <<>>
        THEN ret.result =
               {p \in PatientIds :
                   \/ Contains(patients[p].full_name, ret.args[1])
                   \/ Contains(patients[p].phone, ret.args[1])}
        ELSE ret.result = GetAccessiblePatients(ret.user)

\* ------------------------------------------------------------------ properties: duplicate reconciliation

IsCheck == ret.op = "check_duplicate_patient"

\* the arguments of the call as the function normalises them, and its answer
CandName == IF Truthy(ret.args[1]) THEN Strip(ret.args[1]) ELSE <<>>

CandPhone == IF Truthy(ret.args[2]) THEN Strip(ret.args[2]) ELSE <<>>

CandDoctor == ret.args[3]

Excluded == ret.args[4]

Answer == ret.result.id

\* the patients the call considers: under the doctor, not the excluded one
Considered == {p \in PatientIds : Owner(p) = CandDoctor /\ p # Excluded}

SameName == {p \in Considered : patients[p].full_name = CandName}

Absent(ph) == ph = None \/ ph = <<>>

\* C6: when the candidate phone is present after trimming and a considered
\* patient has exactly the trimmed name and the trimmed phone, the call
\* returns a patient with that name, that phone and that owning doctor.
C6_ExactMatchReturned ==
    (/\ IsCheck
     /\ ~Absent(CandPhone)
     /\ \E p \in SameName : patients[p].phone = CandPhone)
    => /\ Answer \in PatientIds
       /\ patients[Answer].full_name = CandName
       /\ patients[Answer].phone = CandPhone
       /\ Owner(Answer) = CandDoctor

\* C6 witness: a call whose name and phone were submitted with surrounding
\* blanks returned the patient that has the trimmed name and phone.
C6_Witness ==
    /\ IsCheck
    /\ ret.args[1] # CandName /\ ret.args[2] # CandPhone /\ ~Absent(CandPhone)
    /\ Answer \in SameName
    /\ patients[Answer].phone = CandPhone

\* C8: whenever a considered patient has the candidate name and the
\* candidate's phone or that patient's stored phone is absent, the call
\* returns a patient of that doctor with that name, never none.
C8_AbsentPhoneIsDuplicate ==
    (/\ IsCheck
     /\ \E p \in SameName : Absent(CandPhone) \/ Absent(patients[p].phone))
    => /\ Answer \in PatientIds
       /\ Owner(Answer) = CandDoctor
       /\ patients[Answer].full_name = CandName

\* C8 witness: the candidate has no phone, two patients of the doctor share
\* its name, and the call returned one of them.
C8_Witness ==
    /\ IsCheck
    /\ Absent(CandPhone)
    /\ Cardinality(SameName) >= 2
    /\ Answer \in SameName

\* C9: the call never returns the excluded patient and never a patient of
\* another owning doctor, and an edit is never refused as a duplicate of the
\* patient being edited.
C9_NeverSelfNeverOtherDoctor ==
    /\ IsCheck => /\ (Excluded # NoId => Answer # Excluded)
                  /\ (Answer # NoId => Owner(Answer) = CandDoctor)
    /\ (ret.op = "edit_patient" /\ ret.result.status = "duplicate")
          => ret.result.id # ret.args[1]

\* C9 witness: the call was made with a patient's own name and phone and that
\* patient excluded, a patient of another doctor has the same name, and the
\* call returned none.
C9_Witness ==
    /\ IsCheck
    /\ Excluded \in PatientIds
    /\ Owner(Excluded) = CandDoctor
    /\ patients[Excluded].full_name = CandName
    /\ patients[Excluded].phone = CandPhone
    /\ \E p \in PatientIds : Owner(p) # CandDoctor /\ patients[p].full_name = CandName
    /\ Answer = NoId

\* the same-name patients of doctor d in the current store
NamedUnder(d, name) ==
    {p \in PatientIds : Owner(p) = d /\ patients[p].full_name = name}

\* every patient of S has a phone, and none has phone ph
AllOtherPhones(S, ph) ==
    \A p \in S : ~Absent(patients[p].phone) /\ patients[p].phone # ph

\* C7, the call: with a present candidate phone, no considered patient with
\* both the name and the phone, and every same-name patient having a phone,
\* the call returns none.
C7_CallReturnsNone ==
    (IsCheck /\ ~Absent(CandPhone) /\ AllOtherPhones(SameName, CandPhone))
        => Answer = NoId

\* C7, new_patient: a valid request in that case, with same-name patients in
\* the store, adds a patient with the submitted name and phone and changes no
\* other patient.
C7_NewPatientCreates ==
    LET name == Strip(ret'.args[1])
        phone == IF Truthy(ret'.args[2]) THEN Strip(ret'.args[2]) ELSE <<>>
        same == NamedUnder(ret'.user, name)
    IN  (/\ ret'.op = "new_patient"
         /\ PatientFormValid(ret'.args[1], ret'.args[2], ret'.args[3])
         /\ ~Absent(phone)
         /\ same # {}
         /\ AllOtherPhones(same, phone))
        => /\ ret'.result.status = "created"
           /\ ret'.result.id \notin PatientIds
           /\ patients' = patients @@
                (ret'.result.id :> [full_name |-> name, phone |-> phone,
                                    date_of_birth |-> ret'.args[3],
                                    doctor_id |-> ret'.user])

\* C7, import: a sheet whose first row is such a case adds a patient with the
\* row's name and phone and leaves the phones of the same-name patients alone.
C7_ImportCreates ==
    LET row == ret'.args[1][1]
        name == Strip(row.full_name)
        phone == IF Truthy(row.phone) THEN Strip(row.phone) ELSE <<>>
        same == NamedUnder(ret'.user, name)
        id == NextId(patients)
    IN  (/\ ret'.op = "import_patients"
         /\ ret'.result.status = "imported"
         /\ ~Absent(phone)
         /\ same # {}
         /\ AllOtherPhones(same, phone))
        => /\ ret'.result.created >= 1
           /\ id \in DOMAIN patients'
           /\ patients'[id].full_name = name
           /\ patients'[id].phone = phone
           /\ patients'[id].doctor_id = ret'.user
           /\ \A p \in same : patients'[p] = patients[p]

\* C7: same name with a different phone is not a duplicate: the call returns
\* none, and new_patient and import create a second patient instead of merging.
C7_SameNameOtherPhoneNotDuplicate ==
    [][C7_CallReturnsNone' /\ C7_NewPatientCreates /\ C7_ImportCreates]_vars

\* C7 witness: a one-row import created a patient whose name another patient
\* of the importing doctor already has, with a different phone.
C7_Witness ==
    /\ ret.op = "import_patients"
    /\ ret.result.status = "imported"
    /\ Len(ret.args[1]) = 1
    /\ ret.result.created = 1
    /\ \E p, q \in PatientIds :
          /\ p # q /\ q = Max(PatientIds)
          /\ Owner(p) = ret.user /\ Owner(q) = ret.user
          /\ patients[q].full_name = Strip(ret.args[1][1].full_name)
          /\ patients[p].full_name = patients[q].full_name
          /\ patients[q].phone = Strip(ret.args[1][1].phone)
          /\ ~Absent(patients[p].phone) /\ patients[p].phone # patients[q].phone

Imported == ret'.op = "import_patients" /\ ret'.result.status = "imported"

\* the sheet of the import and its rows without a full name
SheetOf(r) == r.args[1]

BlankName(row) == ~Truthy(row.full_name) \/ Strip(row.full_name) = <<>>

BlankRows(rows) == {k \in 1..Len(rows) : BlankName(rows[k])}

NamedRows(rows) == {k \in 1..Len(rows) : ~BlankName(rows[k])}

HasName(row) == ~BlankName(row)

\* C11: in an import that commits, each data row k without a full name adds one
\* to skipped and one error naming sheet row k + 1, in row order; the tables
\* are what importing the sheet without those rows gives, so such a row writes
\* nothing and the rows after it are processed; and when the named rows have
\* mutually distinct names that no patient of the importer has, created is the
\* number of named rows.
C11_BlankNameSkipped ==
    [][Imported =>
        LET rows == SheetOf(ret')
            u == ret'.user
            named == ImportRows(Batch(patients, visits, diagnoses),
                                SelectSeq(rows, HasName), FirstDataRow, u)
        IN  /\ ret'.result.skipped = Cardinality(BlankRows(rows))
            /\ Len(ret'.result.errors) = Cardinality(BlankRows(rows))
            /\ {e.row : e \in {ret'.result.errors[i] : i \in 1..Len(ret'.result.errors)}}
                  = {k + 1 : k \in BlankRows(rows)}
            /\ \A i, j \in 1..Len(ret'.result.errors) :
                  i < j => ret'.result.errors[i].row < ret'.result.errors[j].row
            /\ patients' = named.patients
            /\ visits' = named.visits
            /\ diagnoses' = named.diagnoses
            /\ (BlankRows(rows) = DOMAIN rows) =>
                  UNCHANGED <<patients, visits, diagnoses>>
            /\ \A k \in NamedRows(rows) :
                  \E p \in DOMAIN patients' :
                      /\ patients'[p].full_name = Strip(rows[k].full_name)
                      /\ patients'[p].doctor_id = u
            /\ (/\ \A j, k \in NamedRows(rows) :
                      j # k => Strip(rows[j].full_name) # Strip(rows[k].full_name)
                /\ \A k \in NamedRows(rows) :
                      NamedUnder(u, Strip(rows[k].full_name)) = {})
               => ret'.result.created = Cardinality(NamedRows(rows))]_vars

\* C11 witness: a committed import whose first data row had no name but a visit
\* date and a diagnosis, and whose second row created a patient with a visit:
\* one skipped, one error naming row 2, one created, and the only visit and
\* the only diagnosis of the store are the second row's.
C11_Witness ==
    /\ ret.op = "import_patients"
    /\ ret.result.status = "imported"
    /\ ret.args[1] = <<RowBlankName, RowBoDiagnosis>>
    /\ ret.result.skipped = 1
    /\ ret.result.created = 1
    /\ ret.result.errors[1].row = 2
    /\ Cardinality(VisitIds) = 1
    /\ Cardinality(DiagnosisIds) = 1
    /\ \A v \in VisitIds : patients[visits[v].patient_id].full_name = NameBo

\* ------------------------------------------------------------------ properties: import counters

\* the session's patients before data row k of the sheet is processed
PatientsBefore(rows, k, u) ==
    ImportRows(Batch(patients, visits, diagnoses),
               SubSeq(rows, 1, k - 1), FirstDataRow, u).patients

\* the row's values as the handler normalises them
RowName(row) == Strip(row.full_name)

RowPhone(row) == IF Truthy(row.phone) THEN Strip(row.phone) ELSE None

RowDob(row) == ParseDate(row.dob)

\* the patient data row k matches, NoId when it matches none
MatchOf(rows, k, u) ==
    CheckDuplicateIn(PatientsBefore(rows, k, u),
                     RowName(rows[k]), RowPhone(rows[k]), u, NoId)

\* the named rows that match a patient whose stored date of birth or phone
\* differs from the row's, and those that match one with both identical
DifferingRows(rows, u) ==
    {k \in NamedRows(rows) :
        /\ MatchOf(rows, k, u) # NoId
        /\ LET old == PatientsBefore(rows, k, u)[MatchOf(rows, k, u)]
           IN  old.date_of_birth # RowDob(rows[k]) \/ old.phone # RowPhone(rows[k])}

IdenticalRows(rows, u) ==
    {k \in NamedRows(rows) :
        /\ MatchOf(rows, k, u) # NoId
        /\ LET old == PatientsBefore(rows, k, u)[MatchOf(rows, k, u)]
           IN  old.date_of_birth = RowDob(rows[k]) /\ old.phone = RowPhone(rows[k])}

\* C12: an import that commits counts as updated exactly the rows that match a
\* patient whose stored date of birth or phone differs from the row's, and as
\* duplicate exactly the matching rows with both values identical.
C12_UpdatedIffDiffers ==
    [][Imported =>
        /\ ret'.result.updated = Cardinality(DifferingRows(SheetOf(ret'), ret'.user))
        /\ ret'.result.duplicate = Cardinality(IdenticalRows(SheetOf(ret'), ret'.user))]_vars

\* the import repeats the committed import before it: same account, same sheet
Reimport ==
    /\ ret.op = "import_patients"
    /\ ret.result.status = "imported"
    /\ Imported
    /\ ret'.user = ret.user
    /\ ret'.args = ret.args

Importing == ret'.op = "import_patients" /\ can_import_export(ret'.user)

\* data row k raises from a flush on a session that is still usable: it adds a
\* patient and the flush is refused, or it adds a visit to its added or
\* matched (and possibly updated) patient and that flush is refused
Raises(rows, k, u) ==
    /\ k \in NamedRows(rows)
    /\ \/ rows[k].fault = "patient" /\ MatchOf(rows, k, u) = NoId
       \/ rows[k].fault = "visit" /\ WantsVisit(rows[k])

\* the first data row of the sheet that raises, 0 when none does
RaisingRow(rows, u) ==
    IF \E k \in DOMAIN rows : Raises(rows, k, u)
    THEN Min({k \in DOMAIN rows : Raises(rows, k, u)})
    ELSE 0

\* the rows of the sheet at the positions S, in order, as a sheet
RECURSIVE Pick(_, _)
Pick(rows, S) ==
    IF rows = <<>> THEN <<>>
    ELSE (IF Len(rows) \in S THEN Append(Pick(SubSeq(rows, 1, Len(rows) - 1), S),
                                         rows[Len(rows)])
          ELSE Pick(SubSeq(rows, 1, Len(rows) - 1), S))

\* the tables of the next state are those of a batch of the rows at S alone
LeftBy(rows, S, u) ==
    LET b == ImportRows(Batch(patients, visits, diagnoses), Pick(rows, S),
                        FirstDataRow, u)
    IN  /\ ~b.failed
        /\ patients' = b.patients
        /\ visits' = b.visits
        /\ diagnoses' = b.diagnoses

\* C14: when a row of an import raises after writes of its own, the tables the
\* request leaves are those of a batch in which that row was not processed:
\* none of its writes is in the store.
C14_FailedRowLeavesNothing ==
    [][(Importing /\ RaisingRow(SheetOf(ret'), ret'.user) # 0) =>
        \E S \in SUBSET (DOMAIN SheetOf(ret') \ {RaisingRow(SheetOf(ret'), ret'.user)}) :
            LeftBy(SheetOf(ret'), S, ret'.user)]_vars

\* C14 witness: an import whose only row matched a stored patient, changed its
\* phone and date of birth and then failed to flush its visit; the patient is
\* as it was and has no visit.
C14_Witness ==
    /\ ret.op = "import_patients"
    /\ ret.args[1] = <<RowBoVisitRefused>>
    /\ ret.args[2] = FALSE
    /\ \E p \in PatientIds :
          /\ patients[p].full_name = NameBo
          /\ patients[p].phone = None
          /\ patients[p].date_of_birth = NoDate
    /\ visits = Empty

\* C15: an import whose commit raises, because the database refuses it or
\* because a flush of the batch has failed, leaves the three tables as they
\* were before the request; an import that commits leaves the tables of the
\* whole batch, every row included.
C15_BatchAllOrNothing ==
    [][Importing =>
        /\ (ret'.args[2] \/ RaisingRow(SheetOf(ret'), ret'.user) # 0) =>
              /\ ret'.result.status = "error"
              /\ UNCHANGED <<patients, visits, diagnoses>>
        /\ ret'.result.status = "error" => UNCHANGED <<patients, visits, diagnoses>>
        /\ ret'.result.status = "imported" =>
              LeftBy(SheetOf(ret'), DOMAIN SheetOf(ret'), ret'.user)]_vars

\* C15 witness: an import of two rows that would each create a patient was
\* refused at the commit, and the store holds no patient.
C15_Witness ==
    /\ ret.op = "import_patients"
    /\ ret.args[2] = TRUE
    /\ ret.result.status = "error"
    /\ Len(ret.args[1]) = 2
    /\ \A k \in 1..2 : ret.args[1][k].fault = "none"
    /\ RowName(ret.args[1][1]) # RowName(ret.args[1][2])
    /\ patients = Empty

\* C16: a row that raises does not stop the import: the request commits, the
\* row is counted in skipped, and every other named row of the sheet has its
\* patient in the store afterwards.
C16_RowErrorNotFatal ==
    [][(Importing /\ ~ret'.args[2] /\ RaisingRow(SheetOf(ret'), ret'.user) # 0) =>
        /\ ret'.result.status = "imported"
        /\ ret'.result.skipped >= 1
        /\ \A k \in NamedRows(SheetOf(ret')) :
              ~Raises(SheetOf(ret'), k, ret'.user) =>
                  \E p \in DOMAIN patients' :
                      /\ patients'[p].full_name = RowName(SheetOf(ret')[k])
                      /\ patients'[p].doctor_id = ret'.user]_vars

\* ------------------------------------------------------------------ properties: imported visits

\* the row's visit-date cell or diagnosis-description cell holds something
HasVisitData(row) ==
    row.visit_date.kind # "none" \/ ~Absent(row.diagnosis_description)

\* the row's diagnosis description is non-blank after trimming
HasDescription(row) ==
    ~Absent(row.diagnosis_description) /\ Strip(row.diagnosis_description) # <<>>

\* the named rows up to k that carry visit data, and those with a description
VisitRowsUpTo(rows, k) == {j \in NamedRows(rows) : j <= k /\ HasVisitData(rows[j])}

DescriptionRowsUpTo(rows, k) ==
    {j \in NamedRows(rows) : j <= k /\ HasDescription(rows[j])}

\* the ids the import gives to the visit and to the diagnosis of data row k
VisitIdOf(rows, k) == Max(VisitIds \cup {0}) + Cardinality(VisitRowsUpTo(rows, k))

DiagnosisIdOf(rows, k) ==
    Max(DiagnosisIds \cup {0}) + Cardinality(DescriptionRowsUpTo(rows, k))

\* C17: a committed import adds one visit for each named row that has a visit
\* date or a diagnosis description and no other visit; the visit is on a
\* patient of the importer with the row's name and its creator is the
\* importer; it adds one diagnosis, on that row's visit, for each such row
\* whose description is non-blank after trimming, and no other diagnosis.
C17_VisitPerRow ==
    [][Imported =>
        LET rows == SheetOf(ret')
            u == ret'.user
            withVisit == VisitRowsUpTo(rows, Len(rows))
            withDescription == DescriptionRowsUpTo(rows, Len(rows))
        IN  /\ DOMAIN visits' = VisitIds \cup {VisitIdOf(rows, k) : k \in withVisit}
            /\ Cardinality(DOMAIN visits') = Cardinality(VisitIds) + Cardinality(withVisit)
            /\ \A v \in VisitIds : visits'[v] = visits[v]
            /\ \A k \in withVisit :
                  LET visit == visits'[VisitIdOf(rows, k)]
                  IN  /\ visit.created_by = u
                      /\ visit.patient_id \in DOMAIN patients'
                      /\ patients'[visit.patient_id].full_name = RowName(rows[k])
                      /\ patients'[visit.patient_id].doctor_id = u
            /\ DOMAIN diagnoses' =
                  DiagnosisIds \cup {DiagnosisIdOf(rows, k) : k \in withDescription}
            /\ Cardinality(DOMAIN diagnoses') =
                  Cardinality(DiagnosisIds) + Cardinality(withDescription)
            /\ \A d \in DiagnosisIds : diagnoses'[d] = diagnoses[d]
            /\ \A k \in withDescription :
                  LET diagnosis == diagnoses'[DiagnosisIdOf(rows, k)]
                  IN  /\ diagnosis.visit_id = VisitIdOf(rows, k)
                      /\ diagnosis.description = Strip(rows[k].diagnosis_description)]_vars

\* C17 witness: a committed import of a row with a blank description and no
\* visit date, then a row with a description: two visits by the importer on
\* two patients, one diagnosis, on the second row's visit.
C17_Witness ==
    /\ ret.op = "import_patients"
    /\ ret.result.status = "imported"
    /\ ret.args[1] = <<RowAnBlankDescription, RowBoDiagnosis>>
    /\ Cardinality(VisitIds) = 2
    /\ Cardinality(DiagnosisIds) = 1
    /\ \A v \in VisitIds : visits[v].created_by = ret.user
    /\ \E d \in DiagnosisIds :
          /\ diagnoses[d].visit_id \in VisitIds
          /\ patients[visits[diagnoses[d].visit_id].patient_id].full_name = NameBo

\* ------------------------------------------------------------------ properties: capabilities and deletion

\* C18: a delete, import or export request of an assistant is refused and
\* leaves the three tables unchanged, and a step removes a patient only when
\* it is a delete_patient of an admin or a doctor.
C18_AssistantRefused ==
    [][/\ (/\ ret'.op \in {"delete_patient", "import_patients", "export_patients"}
           /\ users[ret'.user].role = "assistant")
          => /\ ret'.result.status = "forbidden"
             /\ UNCHANGED <<patients, visits, diagnoses>>
       /\ (\E p \in PatientIds : p \notin DOMAIN patients')
          => /\ ret'.op = "delete_patient"
             /\ ret'.result.status = "deleted"
             /\ users[ret'.user].role \in {"admin", "doctor"}]_vars

\* C18 witness: the assistant asked to delete a patient that has a visit and
\* a diagnosis; the request was refused and the patient is in the store.
C18_Witness ==
    /\ ret.op = "delete_patient"
    /\ users[ret.user].role = "assistant"
    /\ ret.result.status = "forbidden"
    /\ ret.args[1] \in PatientIds
    /\ \E v \in VisitIds :
          /\ visits[v].patient_id = ret.args[1]
          /\ \E d \in DiagnosisIds : diagnoses[d].visit_id = v

\* the rows of table f with their keys in S
Keep(f, S) == [x \in S |-> f[x]]

\* C19: deleting a patient removes the patient, its visits and their
\* diagnoses and nothing else; deleting a visit removes the visit and its
\* diagnoses and nothing else; and in every state each visit references a
\* patient of the store and each diagnosis a visit of the store.
C19_CascadeDelete ==
    [][/\ (ret'.op = "delete_patient" /\ ret'.result.status = "deleted") =>
            LET gone == {v \in VisitIds : visits[v].patient_id = ret'.args[1]}
            IN  /\ patients' = Keep(patients, PatientIds \ {ret'.args[1]})
                /\ visits' = Keep(visits, VisitIds \ gone)
                /\ diagnoses' = Keep(diagnoses,
                      {d \in DiagnosisIds : diagnoses[d].visit_id \notin gone})
       /\ ret'.op = "delete_visit" =>
            /\ patients' = patients
            /\ visits' = Keep(visits, VisitIds \ {ret'.args[1]})
            /\ diagnoses' = Keep(diagnoses,
                  {d \in DiagnosisIds : diagnoses[d].visit_id # ret'.args[1]})
       /\ \A v \in DOMAIN visits' : visits'[v].patient_id \in DOMAIN patients'
       /\ \A d \in DOMAIN diagnoses' : diagnoses'[d].visit_id \in DOMAIN visits']_vars

\* C19 witness: a visit of the store's only patient was deleted and the
\* patient keeps its other visit with that visit's diagnosis.
C19_Witness ==
    /\ ret.op = "delete_visit"
    /\ Cardinality(PatientIds) = 1
    /\ Cardinality(VisitIds) = 1
    /\ \A v \in VisitIds :
          /\ v # ret.args[1]
          /\ visits[v].patient_id \in PatientIds
          /\ \E d \in DiagnosisIds : diagnoses[d].visit_id = v

\* ------------------------------------------------------------------ properties: date of birth

\* C20: every patient's date of birth is absent, or not after today and not
\* more than 150 years (at most 150 * 366 days) before today.
C20_DateOfBirthInRange ==
    \A p \in PatientIds :
        \/ patients[p].date_of_birth = NoDate
        \/ /\ patients[p].date_of_birth <= Today
           /\ patients[p].date_of_birth >= Today - max_age * (DaysPerYear + 1)

\* a date of birth the patient form accepts: not after today, and not more
\* than 150 years (at most 150 * 366 days) before today
DobInRange(d) == d <= Today /\ d >= Today - max_age * (DaysPerYear + 1)

\* the rows of the sheet whose date of birth parses to a date out of range
OutOfRangeRows(rows) ==
    {k \in NamedRows(rows) :
        RowDob(rows[k]) # NoDate /\ ~DobInRange(RowDob(rows[k]))}

\* C21: a committed import treats a parsed date of birth that is out of range
\* as absent: the row is still counted as created, updated or duplicate, and
\* every date of birth the import stores on a created patient or writes onto
\* a matched patient is in range.
C21_ImportDropsOutOfRangeDob ==
    [][(Imported /\ OutOfRangeRows(SheetOf(ret')) # {}) =>
          /\ ret'.result.skipped = Cardinality(BlankRows(SheetOf(ret')))
          /\ \A p \in DOMAIN patients' :
                (p \notin PatientIds
                 \/ patients'[p].date_of_birth # patients[p].date_of_birth) =>
                    \/ patients'[p].date_of_birth = NoDate
                    \/ DobInRange(patients'[p].date_of_birth)]_vars

\* ------------------------------------------------------------------ properties: accounts

C23_SupervisorIffAssistant ==
    \A A \in UserIds :
        /\ users[A].doctor_id # NoId <=> users[A].role = "assistant"
        /\ users[A].doctor_id # NoId =>
              /\ users[A].doctor_id \in UserIds
              /\ users[users[A].doctor_id].role = "doctor"
\* C29: the store always holds at least one account whose role is admin.
C29_AnAdminRemains == \E A \in UserIds : users[A].role = "admin"

\* ------------------------------------------------------------------ properties: deduplication

\* C24: no two distinct patients of the same owning doctor have the same name
\* and the same phone, and no two distinct patients of the same owning doctor
\* share a name when at least one of them has no phone.
C24_NoDuplicatePatients ==
    \A p, q \in PatientIds :
        (p # q /\ patients[p].doctor_id = patients[q].doctor_id
               /\ patients[p].full_name = patients[q].full_name) =>
            /\ patients[p].phone # patients[q].phone
            /\ Truthy(patients[p].phone)
            /\ Truthy(patients[q].phone)

\* C24 witness: one doctor owns two patients of the same name, told apart by
\* their phones, after an edit that was let through.
C24_Witness ==
    /\ ret.op = "edit_patient"
    /\ ret.result.status = "updated"
    /\ \E p, q \in PatientIds :
          /\ p # q
          /\ patients[p].doctor_id = patients[q].doctor_id
          /\ patients[p].full_name = patients[q].full_name

\* ------------------------------------------------------------------ properties: concurrent requests

\* C25: once the requests of a doctor that ran at the same time have all
\* committed, at most one patient with a given name and phone exists under
\* that doctor, whatever the order of their duplicate checks and commits.
C25_AtMostOnePerNameAndPhone ==
    (\A r \in DOMAIN requests : requests[r] = Idle) =>
        \A p, q \in PatientIds :
            (/\ patients[p].doctor_id = patients[q].doctor_id
             /\ patients[p].full_name = patients[q].full_name
             /\ patients[p].phone = patients[q].phone) => p = q

\* ------------------------------------------------------------------ properties: import totals

\* the counters of the batch when its row loop ends
LoopEnd ==
    ImportRows(Batch(patients, visits, diagnoses), SheetOf(ret'), FirstDataRow,
               ret'.user)

C27_CreatorAccessesNewPatient ==
    [][\A A \in UserIds :
          (/\ ret'.op = "new_patient"
           /\ ret'.result.status = "created"
           /\ ret'.user = A) =>
              \E p \in GetAccessiblePatients(A)' : p = ret'.result.id]_vars

\* C28: edit_patient changes, and delete_patient removes, only a patient that
\* was among the accessible patients of the requesting account.
C28_WritesOnlyAccessiblePatients ==
    [][(\/ ret'.op = "edit_patient" /\ ret'.result.status = "updated"
        \/ ret'.op = "delete_patient" /\ ret'.result.status = "deleted") =>
          ret'.result.id \in GetAccessiblePatients(ret'.user)]_vars

====
